---- MODULE Spec2Model ----
(***************************************************************************)
(* Model of the report API: the in-memory DataStore, the optimistic-lock   *)
(* update of reportController.ts, the ReportValidator, and the             *)
(* AsyncTaskQueue with its retry and driver timers.                        *)
(*                                                                         *)
(* Time is counted in ticks of TickMs milliseconds, the driver's delay;    *)
(* every delay of the source (100, 200, 500, 800, 2^n * 1000 ms) is a      *)
(* multiple of it.  A timer whose remaining time is 0 is due and fires     *)
(* before time advances.  A handler's outcome is not fixed by the task:    *)
(* the handlers read fields of the caller's untyped payload after their    *)
(* delay and throw when it is missing, and an unknown type always throws.  *)
(***************************************************************************)
EXTENDS Integers, Sequences, FiniteSets, TLC

VARIABLES
    tasks,            \* the Task objects ever handed to enqueue, by task id
    queue,            \* AsyncTaskQueue.queue: sequence of task ids
    processing,       \* AsyncTaskQueue.processing
    deadLetterQueue,  \* AsyncTaskQueue.deadLetterQueue: sequence of task ids
    handlers,         \* processQueue activations suspended on `await executeTask`
    retryTimers,      \* pending setTimeout(() => queue.unshift(task), backoffDelay)
    driverTimers,     \* pending setTimeout(() => processQueue(), 100)
    reports,          \* DataStore.reports: report id -> Report
    lastResponse,     \* the request handled last and the HTTP response it got
    auditLog,         \* the update records written to the console log
    inbox,            \* the request received whose handler runs next
    files,            \* FileStorageService.files: the stored files
    lastRequest,      \* the request lastResponse answers
    uploading,        \* uploadAttachment suspended on `await storeFile`
    everPublished,    \* history: the ids of the reports that have been published
    users,            \* DataStore.users: the stored users
    hashing           \* register calls suspended on `await hashPassword`

qvars == <<tasks, queue, processing, deadLetterQueue, handlers, retryTimers, driverTimers>>
avars == <<users, hashing>>
rvars == <<reports, lastResponse, auditLog, inbox, files, lastRequest, uploading,
           everPublished, users, hashing>>
vars == <<tasks, queue, processing, deadLetterQueue, handlers, retryTimers, driverTimers,
          reports, lastResponse, auditLog, inbox, files, lastRequest, uploading,
          everPublished, users, hashing>>

----------------------------------------------------------------------------
(* Bounds *)

MaxTasks == 3          \* tasks handed to enqueue in one run
MaxMaxAttempts == 3    \* largest maxAttempts of an enqueued task
MaxReports == 1        \* reports created in one run
MaxVersion == 4        \* updates stop once a report has this version
MaxEntries == 3        \* longest entries sequence a request carries
MaxAttachments == 1    \* attachments uploaded to one report
MaxFrameReports == 2   \* reports created in one run of SpecFrame
MaxFrameVersion == 3   \* updates of SpecFrame stop once a report has this version
MaxUsers == 3          \* register requests accepted in one run

(* Program constants *)

DriverDelayMs == 100

\* the length of one tick of model time
TickMs == DriverDelayMs

----------------------------------------------------------------------------
(* asyncTaskQueue.ts *)

TaskType == {"SEND_NOTIFICATION", "INVALIDATE_CACHE", "GENERATE_PREVIEW"}

\* a value outside the enum, which the untyped caller of enqueue can pass
UnknownType == "UNKNOWN"

TaskStatus == {"PENDING", "PROCESSING", "COMPLETED", "FAILED", "DEAD_LETTER"}

RECURSIVE Pow2(_)
Pow2(n) == IF n <= 0 THEN 1 ELSE 2 * Pow2(n - 1)

\* Math.pow(2, task.attempts) * 1000, with attempts already incremented
BackoffDelayWrong(attempts) == Pow2(attempts - 1) * 1000
BackoffDelay(attempts) == Pow2(attempts) * 1000

\* the delay of the simulated handler of each task type, in ms
HandlerDelay(type) ==
    CASE type = "SEND_NOTIFICATION" -> 500
      [] type = "INVALIDATE_CACHE" -> 200
      [] type = "GENERATE_PREVIEW" -> 800
      [] OTHER -> 0

\* the queue's fields and timers as one record, so that the synchronous
\* calls enqueue -> processQueue compose
QState == [tasks |-> tasks, queue |-> queue, processing |-> processing,
           deadLetterQueue |-> deadLetterQueue, handlers |-> handlers,
           retryTimers |-> retryTimers, driverTimers |-> driverTimers]

SetQState(q) ==
    /\ tasks' = q.tasks
    /\ queue' = q.queue
    /\ processing' = q.processing
    /\ deadLetterQueue' = q.deadLetterQueue
    /\ handlers' = q.handlers
    /\ retryTimers' = q.retryTimers
    /\ driverTimers' = q.driverTimers

\* executeTask up to its first suspension: a known type awaits its handler's
\* timer, an unknown type throws at once and the rejection is delivered to
\* processQueue as a microtask
ExecuteTask(q, t) ==
    LET type == q.tasks[t].type IN
    [q EXCEPT !.handlers = @ \cup
        {[task |-> t,
          remaining |-> HandlerDelay(type) \div TickMs,
          micro |-> type \notin TaskType]}]

\* a driver that reads the head of the queue and leaves it there
ProcessQueuePeeks(q) ==
    IF Len(q.queue) = 0
    THEN [q EXCEPT !.processing = FALSE]
    ELSE LET t == Head(q.queue)
             q1 == [q EXCEPT !.processing = TRUE,
                             !.tasks[t].status = "PROCESSING"]
         IN ExecuteTask(q1, t)

\* a driver that keeps its flag up when it finds the queue empty
ProcessQueueStaysBusy(q) ==
    IF Len(q.queue) = 0
    THEN q
    ELSE LET t == Head(q.queue)
             q1 == [q EXCEPT !.processing = TRUE,
                             !.queue = Tail(@),
                             !.tasks[t].status = "PROCESSING"]
         IN ExecuteTask(q1, t)

\* a driver that sits out a pending backoff before it takes the next task
ProcessQueueWaitsForBackoff(q) ==
    IF Len(q.queue) = 0 \/ q.retryTimers # {}
    THEN [q EXCEPT !.processing = FALSE]
    ELSE LET t == Head(q.queue)
             q1 == [q EXCEPT !.processing = TRUE,
                             !.queue = Tail(@),
                             !.tasks[t].status = "PROCESSING"]
         IN ExecuteTask(q1, t)

\* processQueue from its entry to `await this.executeTask(task)`
ProcessQueue(q) ==
    IF Len(q.queue) = 0
    THEN [q EXCEPT !.processing = FALSE]
    ELSE LET t == Head(q.queue)
             q1 == [q EXCEPT !.processing = TRUE,
                             !.queue = Tail(@),
                             !.tasks[t].status = "PROCESSING"]
         IN ExecuteTask(q1, t)

\* an enqueue that puts the task at the front
EnqueueAtFront(q, task) ==
    LET q1 == [q EXCEPT !.tasks = Append(@, task),
                        !.queue = <<Len(q.tasks) + 1>> \o @]
    IN IF ~q1.processing THEN ProcessQueue(q1) ELSE q1

EnqueueAlwaysStarts(q, task) ==
    ProcessQueue([q EXCEPT !.tasks = Append(@, task),
                           !.queue = Append(@, Len(q.tasks) + 1)])

\* enqueue(task); the task's id is its index in tasks
Enqueue(q, task) ==
    LET q1 == [q EXCEPT !.tasks = Append(@, task),
                        !.queue = Append(@, Len(q.tasks) + 1)]
    IN IF ~q1.processing THEN ProcessQueue(q1) ELSE q1

\* the maxAttempts createReport gives each task type
MaxAttemptsOf(type) ==
    CASE type = "SEND_NOTIFICATION" -> 3
      [] type = "INVALIDATE_CACHE" -> 2
      [] type = "GENERATE_PREVIEW" -> 3

NewTaskAttempted(type, maxAttempts) ==
    [type |-> type, status |-> "PENDING", attempts |-> 1,
     maxAttempts |-> maxAttempts, error |-> "", processedAt |-> FALSE]

NewTask(type, maxAttempts) ==
    [type |-> type, status |-> "PENDING", attempts |-> 0,
     maxAttempts |-> maxAttempts, error |-> "", processedAt |-> FALSE]

\* the catch block of processQueue
OnFailureOneMore(q, t) ==
    LET a == q.tasks[t].attempts + 1
        msg == IF q.tasks[t].type \in TaskType THEN "handler error"
               ELSE "Unknown task type"
        q1 == [q EXCEPT !.tasks[t].attempts = a, !.tasks[t].error = msg]
    IN IF a > q.tasks[t].maxAttempts
       THEN [q1 EXCEPT !.tasks[t].status = "DEAD_LETTER",
                       !.deadLetterQueue = Append(@, t)]
       ELSE [q1 EXCEPT !.tasks[t].status = "FAILED",
                       !.retryTimers = @ \cup
                           {[task |-> t, delay |-> BackoffDelay(a),
                             remaining |-> BackoffDelay(a) \div TickMs]}]

OnFailureDropsExhausted(q, t) ==
    LET a == q.tasks[t].attempts + 1
        msg == IF q.tasks[t].type \in TaskType THEN "handler error"
               ELSE "Unknown task type"
        q1 == [q EXCEPT !.tasks[t].attempts = a, !.tasks[t].error = msg]
    IN IF a >= q.tasks[t].maxAttempts
       THEN [q1 EXCEPT !.tasks[t].status = "DEAD_LETTER"]
       ELSE [q1 EXCEPT !.tasks[t].status = "FAILED",
                       !.retryTimers = @ \cup
                           {[task |-> t, delay |-> BackoffDelay(a),
                             remaining |-> BackoffDelay(a) \div TickMs]}]

OnFailureRetriesDeadLetter(q, t) ==
    LET a == q.tasks[t].attempts + 1
        msg == IF q.tasks[t].type \in TaskType THEN "handler error"
               ELSE "Unknown task type"
        q1 == [q EXCEPT !.tasks[t].attempts = a, !.tasks[t].error = msg]
    IN IF a >= q.tasks[t].maxAttempts
       THEN [q1 EXCEPT !.tasks[t].status = "DEAD_LETTER",
                       !.deadLetterQueue = Append(@, t),
                       !.retryTimers = @ \cup
                           {[task |-> t, delay |-> BackoffDelay(a),
                             remaining |-> BackoffDelay(a) \div TickMs]}]
       ELSE [q1 EXCEPT !.tasks[t].status = "FAILED",
                       !.retryTimers = @ \cup
                           {[task |-> t, delay |-> BackoffDelay(a),
                             remaining |-> BackoffDelay(a) \div TickMs]}]

OnFailure(q, t) ==
    LET a == q.tasks[t].attempts + 1
        msg == IF q.tasks[t].type \in TaskType THEN "handler error"
               ELSE "Unknown task type"
        q1 == [q EXCEPT !.tasks[t].attempts = a, !.tasks[t].error = msg]
    IN IF a >= q.tasks[t].maxAttempts
       THEN [q1 EXCEPT !.tasks[t].status = "DEAD_LETTER",
                       !.deadLetterQueue = Append(@, t)]
       ELSE [q1 EXCEPT !.tasks[t].status = "FAILED",
                       !.retryTimers = @ \cup
                           {[task |-> t, delay |-> BackoffDelay(a),
                             remaining |-> BackoffDelay(a) \div TickMs]}]

\* the try block of processQueue after the await
OnSuccessCountsAttempt(q, t) ==
    [q EXCEPT !.tasks[t].status = "COMPLETED", !.tasks[t].processedAt = TRUE,
              !.tasks[t].attempts = @ + 1]

OnSuccess(q, t) ==
    [q EXCEPT !.tasks[t].status = "COMPLETED", !.tasks[t].processedAt = TRUE]

\* processQueue from the resumption of its await to its end
ResumeStopsOnFailure(q, h, ok) ==
    LET q1 == IF ok THEN OnSuccess(q, h.task) ELSE OnFailure(q, h.task)
    IN IF ok
       THEN [q1 EXCEPT !.handlers = @ \ {h},
                       !.driverTimers = Append(@, DriverDelayMs \div TickMs)]
       ELSE [q1 EXCEPT !.handlers = @ \ {h}, !.processing = FALSE]

Resume(q, h, ok) ==
    LET q1 == IF ok THEN OnSuccess(q, h.task) ELSE OnFailure(q, h.task)
    IN [q1 EXCEPT !.handlers = @ \ {h},
                  !.driverTimers = Append(@, DriverDelayMs \div TickMs)]

\* the retry timer's callback: this.queue.unshift(task)
RetryCallbackResetsStatus(q, r) ==
    [q EXCEPT !.queue = <<r.task>> \o @, !.retryTimers = @ \ {r},
              !.tasks[r.task].status = "PENDING"]

RetryCallbackAtBack(q, r) ==
    [q EXCEPT !.queue = Append(@, r.task), !.retryTimers = @ \ {r}]

RetryCallback(q, r) ==
    [q EXCEPT !.queue = <<r.task>> \o @, !.retryTimers = @ \ {r}]

\* getStatus()
GetStatus ==
    [queueLength |-> Len(queue), processing |-> processing,
     deadLetterQueueLength |-> Len(deadLetterQueue)]

RemoveAt(s, i) == SubSeq(s, 1, i - 1) \o SubSeq(s, i + 1, Len(s))

\* a rejected promise is pending delivery: it is delivered before any timer
MicrotaskPending == \E h \in handlers : h.micro

TimerDue ==
    \/ \E h \in handlers : h.remaining = 0
    \/ \E r \in retryTimers : r.remaining = 0
    \/ \E i \in 1..Len(driverTimers) : driverTimers[i] = 0

----------------------------------------------------------------------------
(* Actions of the task queue *)

\* the tasks callers hand to enqueue: the three kinds as createReport builds
\* them, and tasks of an unknown type with any maxAttempts
TaskInputs ==
    {<<type, MaxAttemptsOf(type)>> : type \in TaskType}
        \cup {<<UnknownType, m>> : m \in 1..MaxMaxAttempts}

\* a caller hands a fresh pending task to enqueue
EnqueueTask ==
    /\ Len(tasks) < MaxTasks
    /\ \E in \in TaskInputs :
        SetQState(Enqueue(QState, NewTask(in[1], in[2])))
    /\ UNCHANGED rvars

\* the awaited handler settles: resolved, or rejected with an error
HandlerSettles ==
    /\ \E h \in handlers :
        /\ h.remaining = 0
        /\ h.micro \/ ~MicrotaskPending
        /\ \E ok \in BOOLEAN :
            /\ (h.micro => ~ok)
            /\ SetQState(Resume(QState, h, ok))
    /\ UNCHANGED rvars

\* a retry timer fires
RetryTimerFires ==
    /\ ~MicrotaskPending
    /\ \E r \in retryTimers :
        /\ r.remaining = 0
        /\ SetQState(RetryCallback(QState, r))
    /\ UNCHANGED rvars

\* a driver timer fires and calls processQueue
DriverTimerFires ==
    /\ ~MicrotaskPending
    /\ \E i \in 1..Len(driverTimers) :
        /\ driverTimers[i] = 0
        /\ SetQState(ProcessQueue([QState EXCEPT !.driverTimers = RemoveAt(@, i)]))
    /\ UNCHANGED rvars

\* TickMs milliseconds pass: nothing is due, every pending timer gets closer
Tick ==
    /\ ~TimerDue
    /\ handlers # {} \/ retryTimers # {} \/ Len(driverTimers) > 0
    /\ handlers' = {[h EXCEPT !.remaining = @ - 1] : h \in handlers}
    /\ retryTimers' = {[r EXCEPT !.remaining = @ - 1] : r \in retryTimers}
    /\ driverTimers' = [i \in 1..Len(driverTimers) |-> driverTimers[i] - 1]
    /\ UNCHANGED <<tasks, queue, processing, deadLetterQueue, rvars>>

NoResponse == [op |-> "none"]

NoRequest == [op |-> "none"]

NoUpload == [id |-> 0]

QueueInit ==
    /\ tasks = <<>>
    /\ queue = <<>>
    /\ processing = FALSE
    /\ deadLetterQueue = <<>>
    /\ handlers = {}
    /\ retryTimers = {}
    /\ driverTimers = <<>>

Init ==
    /\ QueueInit
    /\ reports = <<>>
    /\ lastResponse = NoResponse
    /\ auditLog = {}
    /\ inbox = NoRequest
    /\ files = {}
    /\ lastRequest = NoRequest
    /\ uploading = NoUpload
    /\ everPublished = {}
    /\ users = <<>>
    /\ hashing = <<>>

QueueNext ==
    \/ EnqueueTask
    \/ HandlerSettles
    \/ RetryTimerFires
    \/ DriverTimerFires
    \/ Tick

\* the task queue driven by arbitrary callers of enqueue
SpecQueue == Init /\ [][QueueNext]_vars

----------------------------------------------------------------------------
(* models/Report.ts, services/reportValidator.ts *)

\* an optional field of a request body: Absent when the body lacks it
\* (undefined), Some(v) when the body carries v
Absent == <<>>

Some(v) == <<v>>

Get(field) == field[1]

ReportStatus == {"draft", "published", "archived"}

Priority == {"low", "medium", "high"}

\* an entry is represented by its priority, the one field the code reads
HighPriorityCountAll(entries) == Len(entries)

HighPriorityCount(entries) ==
    Cardinality({i \in 1..Len(entries) : entries[i] = "high"})

Valid == [valid |-> TRUE, code |-> "", count |-> 0]

ValidateArchiveTransitionTwoSuffice(report, newStatus) ==
    IF newStatus # "archived" THEN Valid
    ELSE IF report.status = "published" /\ HighPriorityCount(report.entries) < 2
         THEN [valid |-> FALSE, code |-> "INSUFFICIENT_HIGH_PRIORITY_ENTRIES",
               count |-> HighPriorityCount(report.entries)]
         ELSE Valid

ValidateArchiveTransition(report, newStatus) ==
    IF newStatus # "archived" THEN Valid
    ELSE IF report.status = "published" /\ HighPriorityCount(report.entries) < 3
         THEN [valid |-> FALSE, code |-> "INSUFFICIENT_HIGH_PRIORITY_ENTRIES",
               count |-> HighPriorityCount(report.entries)]
         ELSE Valid

ValidatePublishTransitionAlways(report, newStatus) == Valid

ValidatePublishTransition(report, newStatus) ==
    IF newStatus # "published" THEN Valid
    ELSE IF Len(report.entries) = 0
         THEN [valid |-> FALSE, code |-> "NO_ENTRIES", count |-> 0]
         ELSE Valid

ValidateStatusTransitionArchiveOnly(report, newStatus) ==
    ValidateArchiveTransition(report, newStatus)

ValidateStatusTransition(report, newStatus) ==
    LET archiveResult == ValidateArchiveTransition(report, newStatus) IN
    IF ~archiveResult.valid THEN archiveResult
    ELSE ValidatePublishTransition(report, newStatus)

----------------------------------------------------------------------------
(* controllers/reportController.ts *)

Response(op, id, version, http, code, currentVersion, count) ==
    [op |-> op, id |-> id, version |-> version, http |-> http, code |-> code,
     currentVersion |-> currentVersion, count |-> count]

\* `field !== undefined ? field : old`
Patched(field, old) == IF field # Absent THEN Get(field) ELSE old

\* existingReport.version !== version
VersionMismatchOnlyNewer(stored, version) == stored < version
VersionMismatch(stored, version) == stored # version

\* the version of the updated report
NextVersionSame(version) == version
NextVersionPlusTwo(version) == version + 2
NextVersion(version) == version + 1

\* `metadata || {...}` of createReport
DefaultMetadata ==
    [department |-> "General", confidentialityLevel |-> "internal",
     estimatedReadTime |-> 0]

\* `{ ...existingReport.metadata, ...metadata }`
MergeMetadataReplaces(old, patch) == patch

MergeMetadata(old, patch) ==
    [k \in DOMAIN old \cup DOMAIN patch |->
        IF k \in DOMAIN patch THEN patch[k] ELSE old[k]]

\* the object createReport stores
NewReportVersionZero(id, title, description, metadata, createdBy) ==
    [id |-> id, title |-> title, description |-> description, status |-> "draft",
     createdBy |-> createdBy, version |-> 0, entries |-> <<>>,
     metadata |-> IF metadata # Absent THEN Get(metadata) ELSE DefaultMetadata,
     attachments |-> <<>>]

NewReport(id, title, description, metadata, createdBy) ==
    [id |-> id, title |-> title, description |-> description, status |-> "draft",
     createdBy |-> createdBy, version |-> 1, entries |-> <<>>,
     metadata |-> IF metadata # Absent THEN Get(metadata) ELSE DefaultMetadata,
     attachments |-> <<>>]

\* createReport: the outcome [reports, response, q] of one request
CreateReportHandler(store, q, req) ==
    IF req.title = Absent \/ req.description = Absent
    THEN [reports |-> store, q |-> q,
          response |-> Response("create", 0, Absent, 400, "VALIDATION_ERROR", 0, 0)]
    ELSE LET id == Len(store) + 1
             q1 == Enqueue(q, NewTask("SEND_NOTIFICATION", 3))
             q2 == Enqueue(q1, NewTask("INVALIDATE_CACHE", 2))
             q3 == Enqueue(q2, NewTask("GENERATE_PREVIEW", 3))
         IN [reports |-> Append(store, NewReport(id, Get(req.title), Get(req.description),
                                                 req.metadata, req.caller)),
             q |-> q3,
             response |-> Response("create", id, Absent, 201, "CREATED", 1, 0)]

\* the checks of updateReport that come before the business rules, in the
\* order of the source: the code of the first one that fails, "" when none does
RequestRejectionVersionOptional(store, req) ==
    IF req.id \notin DOMAIN store THEN "NOT_FOUND"
    ELSE IF req.version # Absent
            /\ VersionMismatch(store[req.id].version, Get(req.version))
    THEN "CONFLICT"
    ELSE ""

RequestRejectionLookupFirst(store, req) ==
    IF req.id \notin DOMAIN store THEN "NOT_FOUND"
    ELSE IF req.version = Absent THEN "VALIDATION_ERROR"
    ELSE IF VersionMismatch(store[req.id].version, Get(req.version)) THEN "CONFLICT"
    ELSE ""

RequestRejection(store, req) ==
    IF req.version = Absent THEN "VALIDATION_ERROR"
    ELSE IF req.id \notin DOMAIN store THEN "NOT_FOUND"
    ELSE IF VersionMismatch(store[req.id].version, Get(req.version)) THEN "CONFLICT"
    ELSE ""

\* `status !== undefined && status !== existingReport.status`
StatusChangesWhenGiven(existingReport, status) == status # Absent

StatusChanges(existingReport, status) ==
    status # Absent /\ Get(status) # existingReport.status

\* the report handed to the validator: the stored one with the entries of
\* the request, when it carries any
ReportForValidationStored(existingReport, entries) == existingReport

ReportForValidation(existingReport, entries) ==
    [existingReport EXCEPT !.entries = Patched(entries, existingReport.entries)]

\* updateReport: the outcome [reports, response, log] of one request
UpdateReportHandler(store, req) ==
    LET id == req.id
        rejection == RequestRejection(store, req)
        rejected(http, code, cur, count) ==
            [reports |-> store, log |-> {},
             response |-> Response("update", id, req.version, http, code, cur, count)]
    IN
    IF rejection = "VALIDATION_ERROR"
    THEN rejected(400, "VALIDATION_ERROR", 0, 0)
    ELSE IF rejection = "NOT_FOUND"
    THEN rejected(404, "NOT_FOUND", 0, 0)
    ELSE LET existingReport == store[id]
             reportForValidation == ReportForValidation(existingReport, req.entries)
             validationResult ==
                 IF StatusChanges(existingReport, req.status)
                 THEN ValidateStatusTransition(reportForValidation, Get(req.status))
                 ELSE Valid
             updatedReport ==
                 [existingReport EXCEPT
                     !.title = Patched(req.title, @),
                     !.description = Patched(req.description, @),
                     !.status = Patched(req.status, @),
                     !.metadata = IF req.metadata # Absent
                                  THEN MergeMetadata(@, Get(req.metadata)) ELSE @,
                     !.entries = Patched(req.entries, @),
                     !.version = NextVersion(@)]
         IN
         IF rejection = "CONFLICT"
         THEN rejected(409, "CONFLICT", existingReport.version, 0)
         ELSE IF ~validationResult.valid
         THEN rejected(400, validationResult.code, 0, validationResult.count)
         ELSE [reports |-> [store EXCEPT ![id] = updatedReport],
               log |-> {[reportId |-> id, oldVersion |-> existingReport.version,
                         newVersion |-> updatedReport.version]},
               response |-> Response("update", id, req.version, 200, "OK",
                                     updatedReport.version, 0)]

\* fileStorageService.validateFileType / validateFileSize on the uploaded
\* file, which is "none" when the request carries no file
FileRejection(file) ==
    CASE file = "none" -> "NO_FILE"
      [] file = "badtype" -> "INVALID_FILE_TYPE"
      [] file = "toolarge" -> "FILE_TOO_LARGE"
      [] OTHER -> ""

\* uploadAttachment from its entry to `await storeFile`: the outcome
\* [files, response, uploading] of one request; a rejected request is
\* answered at once, an accepted one has its file stored and is suspended
\* holding the report object it read
UploadAttachmentHandler(store, stored, req) ==
    LET id == req.id
        rejected(http, code) ==
            [files |-> stored, uploading |-> NoUpload,
             response |-> Response("upload", id, Absent, http, code, 0, 0)]
        fileId == Cardinality(stored) + 1
    IN
    IF req.file = "none" THEN rejected(400, "NO_FILE")
    ELSE IF id \notin DOMAIN store THEN rejected(404, "NOT_FOUND")
    ELSE IF FileRejection(req.file) # "" THEN rejected(400, FileRejection(req.file))
    ELSE [files |-> stored \cup {[id |-> fileId, reportId |-> id]},
          uploading |-> [id |-> id, report |-> store[id], fileId |-> fileId, req |-> req],
          response |-> NoResponse]

\* uploadAttachment after the await: the attachment id is pushed onto the
\* report object read before the await, which is written back
UploadContinuation(store, u) ==
    [reports |-> [store EXCEPT ![u.id] =
                     [u.report EXCEPT !.attachments = Append(@, u.fileId)]],
     response |-> Response("upload", u.id, Absent, 201, "CREATED", 0, 0)]

\* an await that lets the event loop take other requests
AwaitYieldsToRequests == TRUE

\* storeFile does no I/O: its promise is already settled when it is awaited,
\* and the continuation runs before the event loop takes another request
MicrotasksDrained == uploading = NoUpload

----------------------------------------------------------------------------
(* middleware/auth.ts, routes/reportRoutes.ts *)

Role == {"reader", "editor", "admin"}

\* who sends a request: a holder of a valid token of some role, a caller
\* without Authorization header, or one with a token that does not verify
Callers == Role \cup {"none", "badtoken"}

\* authenticate: the code of its rejection, "" when it calls next()
Authenticate(caller) ==
    IF caller = "none" THEN "UNAUTHORIZED"
    ELSE IF caller = "badtoken" THEN "INVALID_TOKEN"
    ELSE ""

\* a gate that lets every authenticated caller through
AuthorizeAnyRole(allowedRoles, caller) ==
    IF caller \notin Role THEN "UNAUTHORIZED" ELSE ""

\* authorize(...allowedRoles) behind authenticate
Authorize(allowedRoles, caller) ==
    IF caller \notin Role THEN "UNAUTHORIZED"
    ELSE IF caller \notin allowedRoles THEN "FORBIDDEN"
    ELSE ""

\* the roles the routes POST /, PUT /:id and POST /:id/attachment allow
MutatingRoles == {"editor", "admin"}

\* the middleware chain of the three mutating routes
RouteRejection(caller) ==
    IF Authenticate(caller) # "" THEN Authenticate(caller)
    ELSE Authorize(MutatingRoles, caller)

\* the response of the middleware that refused the request
Refusal(req) ==
    Response(req.op, IF req.op = "create" THEN 0 ELSE req.id, Absent,
             IF RouteRejection(req.caller) = "FORBIDDEN" THEN 403 ELSE 401,
             RouteRejection(req.caller), 0, 0)

----------------------------------------------------------------------------
(* Requests *)

RECURSIVE Repeat(_, _)
Repeat(x, n) == IF n = 0 THEN <<>> ELSE <<x>> \o Repeat(x, n - 1)

\* the entries sequences requests carry: up to MaxEntries entries, the
\* high-priority ones first, then at most one of another priority
EntriesInputs ==
    {Repeat("high", h) \o other :
        h \in 0..MaxEntries, other \in {<<>>, <<"low">>}}

\* the requests of an editor on the reports of SpecReport
CreateRequests ==
    [op : {"create"}, caller : {"editor"},
     title : {Absent, Some("T1")}, description : {Absent, Some("D1")},
     metadata : {Absent}]

UpdateRequests ==
    [op : {"update"}, caller : {"editor"},
     id : 1..(MaxReports + 1),
     version : {Absent} \cup {Some(v) : v \in 1..MaxVersion},
     title : {Absent, Some("T2")},
     description : {Absent, Some("D2")},
     status : {Absent} \cup {Some(st) : st \in ReportStatus},
     metadata : {Absent},
     entries : {Absent} \cup {Some(e) : e \in {x \in EntriesInputs : Len(x) <= MaxEntries}}]

UploadRequests ==
    [op : {"upload"}, caller : {"editor"}, id : 1..(MaxReports + 1),
     file : {"none", "badtype", "toolarge", "ok"}]

\* well-formed requests of the other callers
OtherCallersRequests ==
    [op : {"create"}, caller : Callers \ {"editor"},
     title : {Some("T1")}, description : {Some("D1")}, metadata : {Absent}]
    \cup
    [op : {"update"}, caller : Callers \ {"editor"}, id : 1..MaxReports,
     version : {Some(v) : v \in 1..MaxVersion},
     title : {Some("T2")}, description : {Absent}, status : {Absent},
     metadata : {Absent}, entries : {Absent}]
    \cup
    [op : {"upload"}, caller : Callers \ {"editor"}, id : 1..MaxReports,
     file : {"ok"}]

\* the model handles req only while the report it names is within the bounds
WithinBoundsOf(req, maxReports, maxVersion) ==
    CASE req.op = "create" -> Len(reports) < maxReports
      [] req.op = "update" ->
            req.id \in DOMAIN reports => reports[req.id].version < maxVersion
      [] req.op = "upload" ->
            req.id \in DOMAIN reports =>
                Len(reports[req.id].attachments) < MaxAttachments

WithinBounds(req) == WithinBoundsOf(req, MaxReports, MaxVersion)

\* the event loop takes the next request
Receive(requests, maxReports, maxVersion) ==
    /\ inbox = NoRequest
    /\ lastResponse = NoResponse
    /\ MicrotasksDrained
    /\ \E req \in requests :
        /\ WithinBoundsOf(req, maxReports, maxVersion)
        /\ inbox' = req
    /\ UNCHANGED <<qvars, reports, lastResponse, auditLog, files, lastRequest, uploading,
                   everPublished, avars>>

\* a request has been received and parsed; its handler runs next
Arrive ==
    Receive(CreateRequests \cup UpdateRequests \cup UploadRequests
                \cup OtherCallersRequests,
            MaxReports, MaxVersion)

\* the response has been sent
Respond ==
    /\ lastResponse # NoResponse
    /\ lastResponse' = NoResponse
    /\ lastRequest' = NoRequest
    /\ UNCHANGED <<qvars, reports, auditLog, inbox, files, uploading, everPublished, avars>>

\* a request the middleware refused: nothing but the response
Refused ==
    /\ lastResponse' = Refusal(inbox)
    /\ UNCHANGED <<qvars, reports, auditLog, files, uploading, everPublished, avars>>

\* POST /reports
CreateReport ==
    /\ inbox.op = "create"
    /\ IF RouteRejection(inbox.caller) # "" THEN Refused
       ELSE LET out == CreateReportHandler(reports, QState, inbox) IN
            /\ reports' = out.reports
            /\ lastResponse' = out.response
            /\ SetQState(out.q)
            /\ UNCHANGED <<auditLog, files, uploading, everPublished, avars>>
    /\ lastRequest' = inbox
    /\ inbox' = NoRequest

\* PUT /reports/:id
UpdateReport ==
    /\ inbox.op = "update"
    /\ IF RouteRejection(inbox.caller) # "" THEN Refused
       ELSE LET out == UpdateReportHandler(reports, inbox) IN
            /\ reports' = out.reports
            /\ lastResponse' = out.response
            /\ auditLog' = auditLog \cup out.log
            /\ everPublished' =
                   everPublished \cup
                       {id \in DOMAIN out.reports : out.reports[id].status = "published"}
            /\ UNCHANGED <<qvars, files, uploading, avars>>
    /\ lastRequest' = inbox
    /\ inbox' = NoRequest

\* POST /reports/:id/attachment, to its answer or to its await
UploadAttachment ==
    /\ inbox.op = "upload"
    /\ IF RouteRejection(inbox.caller) # "" THEN Refused
       ELSE LET out == UploadAttachmentHandler(reports, files, inbox) IN
            /\ lastResponse' = out.response
            /\ files' = out.files
            /\ uploading' = out.uploading
            /\ UNCHANGED <<qvars, reports, auditLog, everPublished, avars>>
    /\ lastRequest' = IF lastResponse' = NoResponse THEN NoRequest ELSE inbox
    /\ inbox' = NoRequest

\* POST /reports/:id/attachment, from its await to its answer
UploadResumes ==
    /\ uploading # NoUpload
    /\ LET out == UploadContinuation(reports, uploading) IN
        /\ reports' = out.reports
        /\ lastResponse' = out.response
    /\ lastRequest' = uploading.req
    /\ uploading' = NoUpload
    /\ UNCHANGED <<qvars, auditLog, inbox, files, everPublished, avars>>

ReportNext ==
    \/ Arrive
    \/ CreateReport
    \/ UpdateReport
    \/ UploadAttachment
    \/ UploadResumes
    \/ Respond

\* the report store driven by create, update and upload requests; requests
\* are handled one after the other, and the task queue's timers are not
\* scheduled in between
SpecReport == Init /\ [][ReportNext]_vars

\* the metadata a create request of SpecFrame may carry
GivenMetadata ==
    [department |-> "Sales", confidentialityLevel |-> "public",
     estimatedReadTime |-> 5]

\* the Partial<ReportMetadata> patches of SpecFrame
MetadataPatches ==
    {[department |-> "Legal"],
     [confidentialityLevel |-> "confidential", lastReviewedBy |-> "admin"]}

\* the requests of SpecFrame: an admin creates reports with metadata, an
\* editor patches them and uploads to them
FrameRequests ==
    [op : {"create"}, caller : {"admin"},
     title : {Some("T1")}, description : {Some("D1")},
     metadata : {Some(GivenMetadata)}]
    \cup
    [op : {"update"}, caller : {"editor"},
     id : 1..MaxFrameReports,
     version : {Some(v) : v \in 1..MaxFrameVersion},
     title : {Absent, Some("T2")},
     description : {Absent},
     status : {Absent, Some("published")},
     metadata : {Absent} \cup {Some(m) : m \in MetadataPatches},
     entries : {Absent, Some(<<"high">>)}]
    \cup
    [op : {"upload"}, caller : {"editor"}, id : 1..MaxFrameReports, file : {"ok"}]

ArriveFrame == Receive(FrameRequests, MaxFrameReports, MaxFrameVersion)

FrameNext ==
    \/ ArriveFrame
    \/ CreateReport
    \/ UpdateReport
    \/ UploadAttachment
    \/ UploadResumes
    \/ Respond

\* several reports with metadata, created by an admin and patched by an editor
SpecFrame == Init /\ [][FrameNext]_vars

----------------------------------------------------------------------------
(* controllers/authController.ts *)

RegisterRequests ==
    [op : {"register"},
     username : {Absent, Some("alice"), Some("bob")},
     password : {Absent, Some("pw")},
     role : {Absent} \cup {Some(r) : r \in Role}]

\* dataStore.getUserByUsername(username)
GetUserByUsername(stored, username) ==
    {i \in DOMAIN stored : stored[i].username = username}

\* register from its entry to `await hashPassword`: the outcome
\* [hashing, response]; a rejected request is answered at once, an accepted
\* one is suspended while bcrypt hashes the password
RegisterHandler(stored, pending, req) ==
    IF req.username = Absent \/ req.password = Absent
    THEN [hashing |-> pending,
          response |-> Response("register", 0, Absent, 400, "VALIDATION_ERROR", 0, 0)]
    ELSE IF GetUserByUsername(stored, Get(req.username)) # {}
    THEN [hashing |-> pending,
          response |-> Response("register", 0, Absent, 409, "USER_EXISTS", 0, 0)]
    ELSE [hashing |-> Append(pending, req), response |-> NoResponse]

\* register after the await: the user is stored and the token returned
RegisterContinuation(stored, req) ==
    LET newUser == [id |-> Len(stored) + 1,
                    username |-> Get(req.username),
                    role |-> IF req.role # Absent THEN Get(req.role) ELSE "reader"]
    IN [users |-> Append(stored, newUser),
        response |-> Response("register", newUser.id, Absent, 201, "CREATED", 0, 0)]

\* POST /auth/register, to its answer or to its await
Register ==
    /\ Len(users) + Len(hashing) < MaxUsers
    /\ \E req \in RegisterRequests :
        LET out == RegisterHandler(users, hashing, req) IN
        /\ hashing' = out.hashing
        /\ lastResponse' = out.response
        /\ lastRequest' = IF out.response = NoResponse THEN NoRequest ELSE req
    /\ UNCHANGED <<qvars, reports, auditLog, inbox, files, uploading, everPublished, users>>

\* POST /auth/register, from its await to its answer: bcrypt has finished
\* one of the pending hashes
RegisterResumes ==
    /\ \E i \in 1..Len(hashing) :
        LET out == RegisterContinuation(users, hashing[i]) IN
        /\ users' = out.users
        /\ lastResponse' = out.response
        /\ lastRequest' = hashing[i]
        /\ hashing' = RemoveAt(hashing, i)
    /\ UNCHANGED <<qvars, reports, auditLog, inbox, files, uploading, everPublished>>

AuthNext ==
    \/ Register
    \/ RegisterResumes

\* the user store driven by register requests, which overlap while their
\* passwords are hashed
SpecAuth == Init /\ [][AuthNext]_vars

----------------------------------------------------------------------------
(* Properties of the update protocol *)

\* this step handled an update request
UpdateHandled ==
    /\ lastResponse' # lastResponse \/ reports' # reports
    /\ lastResponse'.op = "update"

\* C1: an update whose callerVersion differs from the stored version returns
\* Conflict with the stored and the supplied version, and changes nothing
C1_ConflictOnStaleVersion ==
    [][(/\ UpdateHandled
        /\ lastResponse'.id \in DOMAIN reports
        /\ lastResponse'.version # Absent
        /\ Get(lastResponse'.version) # reports[lastResponse'.id].version)
       => /\ lastResponse'.http = 409
          /\ lastResponse'.code = "CONFLICT"
          /\ lastResponse'.currentVersion = reports[lastResponse'.id].version
          /\ reports' = reports
          /\ auditLog' = auditLog]_vars

\* an update carrying version 1 was refused on a report at version 2
C1_Witness ==
    /\ lastResponse.op = "update"
    /\ lastResponse.code = "CONFLICT"
    /\ lastResponse.version = Some(1)
    /\ lastResponse.currentVersion = 2
    /\ reports[lastResponse.id].version = 2

\* C2: a successful update sets the version to the stored version plus 1, and
\* an update changes a report in no other way
C2_VersionPlusOne ==
    [][UpdateHandled =>
          /\ lastResponse'.http = 200 =>
                /\ lastResponse'.id \in DOMAIN reports
                /\ reports'[lastResponse'.id].version
                       = reports[lastResponse'.id].version + 1
                /\ lastResponse'.currentVersion
                       = reports[lastResponse'.id].version + 1
          /\ \A id \in DOMAIN reports :
                reports'[id] # reports[id] =>
                    reports'[id].version = reports[id].version + 1]_vars

\* a report has been updated twice
C2_Witness ==
    /\ lastResponse.op = "update"
    /\ lastResponse.http = 200
    /\ reports[lastResponse.id].version = 3

\* C3: once an update of a report carrying callerVersion v has succeeded,
\* every other update of that report carrying v returns Conflict and changes
\* nothing
C3_NoLostUpdate ==
    [][(/\ UpdateHandled
        /\ lastResponse'.version # Absent
        /\ \E e \in auditLog :
              /\ e.reportId = lastResponse'.id
              /\ e.oldVersion = Get(lastResponse'.version))
       => /\ lastResponse'.code = "CONFLICT"
          /\ reports' = reports]_vars

\* two updates carried the same callerVersion: one succeeded, the other got
\* Conflict
C3_Witness ==
    /\ lastResponse.op = "update"
    /\ lastResponse.code = "CONFLICT"
    /\ \E e \in auditLog :
          /\ e.reportId = lastResponse.id
          /\ Some(e.oldVersion) = lastResponse.version

----------------------------------------------------------------------------
(* Properties of the business rules and of the handlers' rejections *)

\* the step runs updateReport: the update being handled comes from an editor
\* or an admin
UpdateRuns ==
    /\ inbox.op = "update"
    /\ inbox.caller \in {"editor", "admin"}
    /\ lastResponse'.op = "update"

\* the step handles an update whose report exists and whose callerVersion
\* equals the stored version
UpdatePastVersionCheck ==
    /\ UpdateRuns
    /\ inbox.id \in DOMAIN reports
    /\ inbox.version = Some(reports[inbox.id].version)

\* the update being handled asks for status st, which the report does not have
RequestsStatus(st) ==
    /\ UpdatePastVersionCheck
    /\ inbox.status = Some(st)
    /\ reports[inbox.id].status # st

\* the entries the report would have after the update being handled
CandidateEntries ==
    IF inbox.entries = Absent THEN reports[inbox.id].entries ELSE inbox.entries[1]

NumberOfHigh(entries) == Cardinality({i \in 1..Len(entries) : entries[i] = "high"})

UpdateRejectedWith(code) ==
    /\ lastResponse'.http = 400
    /\ lastResponse'.code = code
    /\ reports' = reports

UpdateApplied ==
    /\ lastResponse'.http = 200
    /\ reports'[inbox.id].status = inbox.status[1]
    /\ reports'[inbox.id].entries = CandidateEntries

\* C11: archiving a published report is rejected with
\* InsufficientHighPriorityEntries when the candidate entries hold fewer than
\* three high-priority entries, and applied when they hold three or more
C11_ArchiveRule ==
    [][(RequestsStatus("archived") /\ reports[inbox.id].status = "published") =>
          IF NumberOfHigh(CandidateEntries) < 3
          THEN UpdateRejectedWith("INSUFFICIENT_HIGH_PRIORITY_ENTRIES")
          ELSE UpdateApplied]_vars

\* a published report with exactly two high-priority candidate entries was
\* refused archiving
C11_Witness ==
    /\ lastResponse.op = "update"
    /\ lastResponse.code = "INSUFFICIENT_HIGH_PRIORITY_ENTRIES"
    /\ lastResponse.count = 2
    /\ reports[lastResponse.id].status = "published"

\* C12: publishing a report that is not published is rejected with NoEntries
\* when the candidate entries are empty, and applied when there is at least one
C12_PublishRule ==
    [][RequestsStatus("published") =>
          IF Len(CandidateEntries) = 0
          THEN UpdateRejectedWith("NO_ENTRIES")
          ELSE UpdateApplied]_vars

\* a report without entries was refused publication
C12_Witness ==
    /\ lastResponse.op = "update"
    /\ lastResponse.code = "NO_ENTRIES"
    /\ reports[lastResponse.id].entries = <<>>
    /\ reports[lastResponse.id].status # "published"

\* the two rules on a report of the given status and entries asked to take
\* newStatus
RulesHold(status, entries, newStatus) ==
    /\ (newStatus = "archived" /\ status = "published") => NumberOfHigh(entries) >= 3
    /\ newStatus = "published" => Len(entries) >= 1

\* C13: an update that changes the status is judged on the entries of the
\* patch when it carries entries, and on the stored entries when it does not
C13_RulesOnCandidate ==
    [][\A st \in ReportStatus :
          RequestsStatus(st) =>
              (lastResponse'.http = 200 <=>
                  RulesHold(reports[inbox.id].status,
                            IF inbox.entries # Absent THEN inbox.entries[1]
                            ELSE reports[inbox.id].entries,
                            st))]_vars

\* archiving was refused for the entries of the patch although the stored
\* entries hold three high-priority entries
C13_Witness ==
    /\ lastResponse.op = "update"
    /\ lastResponse.code = "INSUFFICIENT_HIGH_PRIORITY_ENTRIES"
    /\ lastResponse.count < 3
    /\ NumberOfHigh(reports[lastResponse.id].entries) >= 3

\* C14: an update the validator rejects fails with the validator's error
\* kind and leaves the stored report as it was
C14_RejectionLeavesReport ==
    [][\A st \in ReportStatus :
          (RequestsStatus(st)
           /\ ~RulesHold(reports[inbox.id].status, CandidateEntries, st)) =>
              /\ lastResponse'.http = 400
              /\ lastResponse'.code =
                     (IF st = "archived" THEN "INSUFFICIENT_HIGH_PRIORITY_ENTRIES"
                      ELSE "NO_ENTRIES")
              /\ reports' = reports
              /\ auditLog' = auditLog]_vars

\* a report updated before was refused publication by the validator, and
\* still has the version the rejected request carried
C14_Witness ==
    /\ lastResponse.op = "update"
    /\ lastResponse.code = "NO_ENTRIES"
    /\ lastResponse.version = Some(reports[lastResponse.id].version)
    /\ reports[lastResponse.id].version > 1

\* C15: whenever the content of a stored report changes, its version
\* increases by exactly one
C15_ChangeIncrementsVersion ==
    [][\A id \in DOMAIN reports :
          reports'[id] # reports[id] =>
              reports'[id].version = reports[id].version + 1]_vars

\* C16: an update without callerVersion on a report of the store fails with
\* ValidationError and the store is unchanged
C16_MissingVersion ==
    [][(/\ UpdateRuns
        /\ inbox.id \in DOMAIN reports
        /\ inbox.version = Absent) =>
          /\ lastResponse'.http = 400
          /\ lastResponse'.code = "VALIDATION_ERROR"
          /\ reports' = reports]_vars

\* an update of a stored report that carried no version was refused
C16_Witness ==
    /\ lastResponse.op = "update"
    /\ lastResponse.id \in DOMAIN reports
    /\ lastResponse.version = Absent
    /\ lastResponse.code = "VALIDATION_ERROR"

\* C17 as stated: an update of a report that is not in the store fails with
\* NotFound, whether or not it carries a callerVersion
C17_NotFoundFirst ==
    [][(UpdateRuns /\ inbox.id \notin DOMAIN reports) =>
          /\ lastResponse'.code = "NOT_FOUND"
          /\ reports' = reports]_vars

\* C17: an update of a report that is not in the store fails with NotFound
\* when it carries a callerVersion and with ValidationError when it carries
\* none; the store is unchanged
C17_VersionCheckedFirst ==
    [][(UpdateRuns /\ inbox.id \notin DOMAIN reports) =>
          /\ inbox.version # Absent =>
                lastResponse'.http = 404 /\ lastResponse'.code = "NOT_FOUND"
          /\ inbox.version = Absent =>
                lastResponse'.http = 400 /\ lastResponse'.code = "VALIDATION_ERROR"
          /\ reports' = reports]_vars

\* an update without version of a report that is not in the store got
\* ValidationError
C17_Witness ==
    /\ lastResponse.op = "update"
    /\ lastResponse.id \notin DOMAIN reports
    /\ lastResponse.version = Absent
    /\ lastResponse.code = "VALIDATION_ERROR"

\* the tasks a successful creation hands to enqueue, in order
CreationTasks ==
    <<[type |-> "SEND_NOTIFICATION", maxAttempts |-> 3],
      [type |-> "INVALIDATE_CACHE", maxAttempts |-> 2],
      [type |-> "GENERATE_PREVIEW", maxAttempts |-> 3]>>

\* C18: a successful creation enqueues exactly the three creation tasks, in
\* order, each pending with attempts 0 (the idle driver takes the first one
\* at once); no other request enqueues a task
C18_TasksOnlyFromCreation ==
    [][IF inbox.op = "create" /\ lastResponse'.http = 201
       THEN /\ Len(tasks') = Len(tasks) + 3
            /\ \A i \in 1..Len(tasks) : tasks'[i] = tasks[i]
            /\ \A k \in 1..3 :
                  LET t == tasks'[Len(tasks) + k] IN
                  /\ t.type = CreationTasks[k].type
                  /\ t.maxAttempts = CreationTasks[k].maxAttempts
                  /\ t.attempts = 0
                  /\ \/ t.status = "PENDING" /\ Len(tasks) + k \in
                            {queue'[j] : j \in 1..Len(queue')}
                     \/ /\ t.status = "PROCESSING"
                        /\ k = 1
                        /\ ~processing
                        /\ \E h \in handlers' : h.task = Len(tasks) + k
       ELSE UNCHANGED qvars]_vars

\* a report was created and the three tasks are with the queue
C18_Witness ==
    /\ lastResponse.op = "create"
    /\ lastResponse.http = 201
    /\ Len(tasks) = 3
    /\ Len(reports) = 1

\* C24: an update that asks for the status the report already has, with the
\* stored version, is applied without any rule being checked
C24_SameStatusSkipsRules ==
    [][(UpdatePastVersionCheck /\ inbox.status = Some(reports[inbox.id].status)) =>
          /\ lastResponse'.http = 200
          /\ reports'[inbox.id].status = reports[inbox.id].status
          /\ reports'[inbox.id].entries = CandidateEntries
          /\ reports'[inbox.id].version = reports[inbox.id].version + 1]_vars

\* an update asking for published was applied and left a published report
\* without entries, which the publish rule would have refused
C24_Witness ==
    /\ lastResponse.op = "update"
    /\ lastResponse.http = 200
    /\ lastRequest.status = Some("published")
    /\ reports[lastResponse.id].status = "published"
    /\ reports[lastResponse.id].entries = <<>>

\* the updates of report id that succeeded, by the records they logged
SucceededUpdates(id) == {e \in auditLog : e.reportId = id}

\* C25: the version of a report is 1 plus the number of its updates that
\* succeeded
C25_VersionCountsUpdates ==
    \A id \in DOMAIN reports :
        reports[id].version = 1 + Cardinality(SucceededUpdates(id))

\* a report was archived by its third successful update after an archive
\* request was refused
C25_Witness ==
    /\ lastResponse.op = "update"
    /\ lastResponse.http = 200
    /\ reports[lastResponse.id].status = "archived"
    /\ reports[lastResponse.id].version = 4
    /\ Cardinality(SucceededUpdates(lastResponse.id)) = 3

\* C26: when the archive rule rejects a request, the outcome reports the
\* number of high-priority entries among the candidate entries
C26_ReportedCount ==
    [][(/\ RequestsStatus("archived")
        /\ reports[inbox.id].status = "published"
        /\ lastResponse'.code = "INSUFFICIENT_HIGH_PRIORITY_ENTRIES") =>
          lastResponse'.count = NumberOfHigh(CandidateEntries)]_vars

\* archiving a report with two high-priority entries and one low-priority
\* entry was refused with count 2
C26_Witness ==
    /\ lastResponse.op = "update"
    /\ lastResponse.code = "INSUFFICIENT_HIGH_PRIORITY_ENTRIES"
    /\ lastResponse.count = 2
    /\ lastRequest.entries = Absent
    /\ reports[lastResponse.id].entries = <<"high", "high", "low">>

\* C27: the stored version of a report never decreases, whatever updates
\* and uploads are handled
C27_VersionNeverDecreases ==
    [][\A id \in DOMAIN reports :
          reports'[id].version >= reports[id].version]_vars

\* an upload wrote back a report that had been updated before
C27_Witness ==
    /\ lastResponse.op = "upload"
    /\ lastResponse.http = 201
    /\ reports[lastResponse.id].version >= 2
    /\ Len(reports[lastResponse.id].attachments) = 1

\* C28: a mutating request of a caller who is not an authenticated editor or
\* admin is answered 401 or 403 and changes neither the report store nor
\* the task queue nor the stored files; the stores change only in the
\* handling of an editor's or admin's request
C28_RoleGate ==
    [][/\ (inbox.op # "none" /\ inbox.caller \notin {"editor", "admin"}) =>
            /\ lastResponse'.http = (IF inbox.caller = "reader" THEN 403 ELSE 401)
            /\ UNCHANGED <<reports, qvars, files, auditLog, uploading>>
       /\ (reports' # reports \/ tasks' # tasks \/ files' # files) =>
            \/ inbox.op # "none" /\ inbox.caller \in {"editor", "admin"}
            \/ /\ uploading # NoUpload
               /\ uploading.req.caller \in {"editor", "admin"}]_vars

\* a reader's update carrying the stored version of a report was refused
C28_Witness ==
    /\ lastResponse.op = "update"
    /\ lastResponse.http = 403
    /\ lastRequest.caller = "reader"
    /\ lastRequest.id \in DOMAIN reports
    /\ lastRequest.version = Some(reports[lastRequest.id].version)

\* the value a field has after a patch that carries `field` or does not
AfterPatch(field, old) == IF field = Absent THEN old ELSE field[1]

\* C23: a successful update overwrites the fields the patch carries and keeps
\* every other field; the metadata keeps each stored field the patch does
\* not name and takes the fields the patch names; id, owner and attachments
\* stay, and no other report changes
C23_UpdateFrame ==
    [][(UpdateRuns /\ lastResponse'.http = 200) =>
          LET old == reports[inbox.id]
              new == reports'[inbox.id]
              patchKeys == IF inbox.metadata = Absent THEN {}
                           ELSE DOMAIN inbox.metadata[1]
          IN /\ new.title = AfterPatch(inbox.title, old.title)
             /\ new.description = AfterPatch(inbox.description, old.description)
             /\ new.status = AfterPatch(inbox.status, old.status)
             /\ new.entries = AfterPatch(inbox.entries, old.entries)
             /\ DOMAIN new.metadata = DOMAIN old.metadata \cup patchKeys
             /\ \A k \in DOMAIN new.metadata :
                   new.metadata[k] = IF k \in patchKeys THEN inbox.metadata[1][k]
                                     ELSE old.metadata[k]
             /\ new.id = old.id
             /\ new.createdBy = old.createdBy
             /\ new.attachments = old.attachments
             /\ DOMAIN reports' = DOMAIN reports
             /\ \A other \in DOMAIN reports \ {inbox.id} :
                   reports'[other] = reports[other]]_vars

\* with two reports stored, the department of one that has an attachment
\* was patched and the metadata given at its creation is otherwise kept
C23_Witness ==
    /\ lastResponse.op = "update"
    /\ lastResponse.http = 200
    /\ Len(reports) = 2
    /\ lastRequest.metadata = Some([department |-> "Legal"])
    /\ lastRequest.title = Absent
    /\ reports[lastResponse.id].metadata =
           [GivenMetadata EXCEPT !.department = "Legal"]
    /\ reports[lastResponse.id].title = "T1"
    /\ reports[lastResponse.id].createdBy = "admin"
    /\ Len(reports[lastResponse.id].attachments) = 1

\* C34: every stored report whose status is published has at least one
\* entry
C34_PublishedHasEntries ==
    \A id \in DOMAIN reports :
        reports[id].status = "published" => Len(reports[id].entries) >= 1

\* C35: a report that has been published becomes archived only by an update
\* that leaves it with at least three high-priority entries
C35_ArchiveRuleNotBypassed ==
    [][\A id \in DOMAIN reports :
          (/\ id \in everPublished
           /\ reports[id].status # "archived"
           /\ reports'[id].status = "archived") =>
              NumberOfHigh(reports'[id].entries) >= 3]_vars

\* C36: no two stored users share a username
C36_UniqueUsernames ==
    \A i, j \in DOMAIN users :
        i # j => users[i].username # users[j].username

----------------------------------------------------------------------------
(* Properties of the task queue *)

TaskIds == DOMAIN tasks

InSeq(s, x) == \E i \in 1..Len(s) : s[i] = x

Retired(t) == tasks[t].status \in {"COMPLETED", "DEAD_LETTER"}

\* nothing is left to fire: no handler in flight, no retry timer, no driver timer
Settled == handlers = {} /\ retryTimers = {} /\ driverTimers = <<>>

\* the status of t before this step (a task enqueued in this step was pending)
StatusBefore(t) == IF t \in DOMAIN tasks THEN tasks[t].status ELSE "PENDING"

\* processQueue takes t off the pending sequence in this step
Starts(t) == tasks'[t].status = "PROCESSING" /\ StatusBefore(t) # "PROCESSING"

\* C4: once the engine has settled, a task all of whose attempts failed is in
\* the dead-letter collection with attempts = maxAttempts
C4_DeadLetterAfterMaxAttempts ==
    Settled =>
        \A t \in TaskIds :
            tasks[t].status # "COMPLETED" =>
                /\ InSeq(deadLetterQueue, t)
                /\ tasks[t].attempts = tasks[t].maxAttempts

\* C5: every enqueued task is retired: once nothing is left to fire, every
\* task is completed or dead-lettered, none is left waiting in the queue
C5_EveryTaskRetired ==
    Settled => \A t \in TaskIds : Retired(t)

\* C6: completed and dead-letter are terminal: the status of such a task
\* never changes, it is never put back in the pending sequence, no retry
\* timer holds it and its handler is never invoked again
C6_Terminal ==
    [][\A t \in TaskIds :
          Retired(t) =>
              /\ tasks'[t].status = tasks[t].status
              /\ tasks'[t].attempts = tasks[t].attempts
              /\ ~InSeq(queue', t)
              /\ \A h \in handlers' : h.task # t
              /\ \A r \in retryTimers' : r.task # t]_vars

\* a task is dead-lettered and the engine has since gone on to another task
C6_Witness ==
    \E t, u \in TaskIds :
        /\ tasks[t].status = "DEAD_LETTER"
        /\ u > t
        /\ tasks[u].status = "COMPLETED"
        /\ Settled

\* C7: at most one task is in flight: at most one task has status PROCESSING
\* and at most one driver loop (awaiting a handler or its 100 ms timer) exists
C7_AtMostOneInFlight ==
    /\ Cardinality({t \in TaskIds : tasks[t].status = "PROCESSING"}) <= 1
    /\ Cardinality(handlers) + Len(driverTimers) <= 1

\* a task is processing while another waits in the queue and a third waits
\* for its retry timer
C7_Witness ==
    /\ \E t \in TaskIds : tasks[t].status = "PROCESSING"
    /\ Len(queue) >= 1
    /\ retryTimers # {}

\* C8 as claimed: while a failed task waits out its backoff delay no task is
\* executing
C8_IdleDuringBackoff ==
    retryTimers # {} => \A t \in TaskIds : tasks[t].status # "PROCESSING"

\* C8 as amended: a task starts only when no attempt is in flight, and the
\* driver's timer starts the head of the pending sequence whether or not a
\* failed task is waiting out its backoff
C8_OneAttemptAtATime ==
    [][/\ \A t \in DOMAIN tasks' :
            Starts(t) =>
                /\ handlers = {}
                /\ \A u \in TaskIds : tasks[u].status # "PROCESSING"
       /\ (Len(driverTimers') < Len(driverTimers) /\ queue # <<>>) =>
            /\ tasks'[Head(queue)].status = "PROCESSING"
            /\ queue' = Tail(queue)]_vars

\* a task is executing while a failed task waits out its backoff
C8_Witness ==
    /\ retryTimers # {}
    /\ \E t \in TaskIds : tasks[t].status = "PROCESSING"

\* C9 as claimed: a reinserted task is the next task the driver starts, so
\* whenever the driver starts a task no other reinserted task is pending
C9_RetryStartsNext ==
    [][\A t \in DOMAIN tasks' :
          Starts(t) =>
              \A i \in 1..Len(queue) :
                  tasks[queue[i]].status = "FAILED" => queue[i] = t]_vars

WaitingTasks(timers) == {r.task : r \in timers}

\* C9 as amended: a retry timer puts its task at the front of the pending
\* sequence, and the driver starts a fresh task only when no reinserted task
\* is pending
C9_RetriesAheadOfFresh ==
    [][/\ \A t \in WaitingTasks(retryTimers) \ WaitingTasks(retryTimers') :
            /\ queue' # <<>>
            /\ Head(queue') = t
            /\ Tail(queue') = queue
       /\ \A t \in DOMAIN tasks' :
            (Starts(t) /\ StatusBefore(t) = "PENDING") =>
                \A i \in 1..Len(queue) : tasks[queue[i]].status # "FAILED"]_vars

\* a reinserted task is at the head of the pending sequence, ahead of a
\* fresh task
C9_Witness ==
    /\ Len(queue) >= 2
    /\ tasks[queue[1]].status = "FAILED"
    /\ tasks[queue[2]].status = "PENDING"

\* C10: the retry timer set after a non-exhausting failure has a delay of
\* 2^attempts seconds, attempts being the counter after its increment
C10_BackoffDelay ==
    [][\A t \in TaskIds :
          (tasks[t].status = "PROCESSING" /\ tasks'[t].status = "FAILED") =>
              /\ tasks'[t].attempts = tasks[t].attempts + 1
              /\ \E r \in retryTimers' :
                    /\ r.task = t
                    /\ r.delay = (2 ^ tasks'[t].attempts) * 1000
                    /\ r.remaining * TickMs = r.delay
              /\ (tasks'[t].attempts = 1 =>
                    \E r \in retryTimers' : r.task = t /\ r.delay = 2000)
              /\ (tasks'[t].attempts = 2 =>
                    \E r \in retryTimers' : r.task = t /\ r.delay = 4000)]_vars

\* a task has failed twice and waits 4 s for its third attempt
C10_Witness ==
    \E r \in retryTimers :
        /\ tasks[r.task].attempts = 2
        /\ tasks[r.task].status = "FAILED"
        /\ r.remaining = 40

\* the engine still refers to task t: it is in the queue, in flight, waiting
\* in its retry timer, or in the dead-letter collection
Held(t) ==
    \/ InSeq(queue, t)
    \/ InSeq(deadLetterQueue, t)
    \/ \E h \in handlers : h.task = t
    \/ \E r \in retryTimers : r.task = t

\* C19 as stated: every task handed to enqueue, completed ones included,
\* remains held by the engine
C19_EveryTaskHeld == \A t \in TaskIds : Held(t)

\* C19: a task that has not completed remains held by the engine, a
\* dead-lettered task in the dead-letter collection; the engine keeps no
\* reference to a completed task
C19_UncompletedHeld ==
    \A t \in TaskIds :
        /\ tasks[t].status # "COMPLETED" => Held(t)
        /\ tasks[t].status = "DEAD_LETTER" <=> InSeq(deadLetterQueue, t)
        /\ tasks[t].status = "COMPLETED" => ~Held(t)

\* one task has completed and is gone, another is kept in the dead-letter
\* collection
C19_Witness ==
    \E t, u \in TaskIds :
        /\ tasks[t].status = "COMPLETED" /\ ~Held(t)
        /\ tasks[u].status = "DEAD_LETTER" /\ InSeq(deadLetterQueue, u)

\* C20: a failing attempt stays inside the engine: the step that records it
\* touches no other task, no report and no response, leaves the queue as it
\* is and the driver running with its next run scheduled; and a pending task
\* in the queue always has a driver that will take it
C20_FailureIsolated ==
    /\ [](\A t \in TaskIds :
            (InSeq(queue, t) /\ tasks[t].status = "PENDING") =>
                /\ processing
                /\ handlers # {} \/ Len(driverTimers) > 0)
    /\ [][\A h \in handlers :
            (h \notin handlers' /\ tasks'[h.task].attempts = tasks[h.task].attempts + 1) =>
                /\ processing'
                /\ Len(driverTimers') = Len(driverTimers) + 1
                /\ queue' = queue
                /\ \A t \in TaskIds \ {h.task} : tasks'[t] = tasks[t]
                /\ UNCHANGED rvars]_vars

\* an attempt of one task failed and a task enqueued after it has completed
C20_Witness ==
    \E t, u \in TaskIds :
        /\ t < u
        /\ tasks[t].attempts > 0
        /\ tasks[t].status \in {"FAILED", "DEAD_LETTER"}
        /\ tasks[u].status = "COMPLETED"

\* C21: a task of unknown kind is not handled as an ordinary retryable
\* failure: it is never marked failed and never waits for a retry
C21_UnknownKindNotRetried ==
    \A t \in TaskIds :
        tasks[t].type \notin {"SEND_NOTIFICATION", "INVALIDATE_CACHE", "GENERATE_PREVIEW"} =>
            /\ tasks[t].status # "FAILED"
            /\ \A r \in retryTimers : r.task # t

\* C22 as stated: the status report's processing is true exactly when a task
\* is being processed
C22_ProcessingExact == GetStatus.processing <=> handlers # {}

\* C22: queueLength is the number of tasks waiting in the pending sequence,
\* deadLetterQueueLength the number of dead-lettered tasks; processing is
\* true while an attempt is in flight and through the pause after it, until
\* a run of the driver finds the queue empty
C22_StatusReport ==
    /\ GetStatus.queueLength = Cardinality({t \in TaskIds : InSeq(queue, t)})
    /\ \A t \in TaskIds : InSeq(queue, t) => tasks[t].status \in {"PENDING", "FAILED"}
    /\ GetStatus.deadLetterQueueLength
           = Cardinality({t \in TaskIds : tasks[t].status = "DEAD_LETTER"})
    /\ GetStatus.processing <=> (handlers # {} \/ Len(driverTimers) > 0)

\* the driver pauses after an attempt: processing is reported although no
\* task is being processed, one task waits and one is dead-lettered
C22_Witness ==
    /\ GetStatus.processing
    /\ handlers = {}
    /\ GetStatus.queueLength = 1
    /\ GetStatus.deadLetterQueueLength = 1

\* the attempt of task t ends in this step
AttemptEnds(t) ==
    /\ \E h \in handlers : h.task = t
    /\ \A h \in handlers' : h.task # t

\* C29: a failed attempt adds exactly one to attempts and records the error,
\* a successful attempt leaves attempts as it is, nothing else changes
\* attempts, and a task starts with attempts 0
C29_AttemptsCountFailures ==
    [][/\ \A t \in TaskIds :
            IF AttemptEnds(t)
            THEN \/ /\ tasks'[t].status \in {"FAILED", "DEAD_LETTER"}
                    /\ tasks'[t].attempts = tasks[t].attempts + 1
                    /\ tasks'[t].error # ""
                 \/ /\ tasks'[t].status = "COMPLETED"
                    /\ tasks'[t].attempts = tasks[t].attempts
                    /\ tasks'[t].error = tasks[t].error
            ELSE tasks'[t].attempts = tasks[t].attempts
       /\ \A t \in DOMAIN tasks' \ TaskIds : tasks'[t].attempts = 0]_vars

\* a task failed once and completed on its second attempt
C29_Witness ==
    \E t \in TaskIds :
        /\ tasks[t].status = "COMPLETED"
        /\ tasks[t].attempts = 1
        /\ tasks[t].error # ""

\* C30: attempts never exceeds maxAttempts; a task that is being attempted
\* or has completed has failed fewer than maxAttempts times, so its handler
\* runs at most maxAttempts times; a dead-lettered task has attempts equal to
\* maxAttempts and a failed one has attempts below it
C30_AttemptsBounded ==
    \A t \in TaskIds :
        /\ tasks[t].attempts <= tasks[t].maxAttempts
        /\ tasks[t].status \in {"PROCESSING", "COMPLETED"} =>
              tasks[t].attempts < tasks[t].maxAttempts
        /\ tasks[t].status = "DEAD_LETTER" => tasks[t].attempts = tasks[t].maxAttempts
        /\ tasks[t].status = "FAILED" => tasks[t].attempts < tasks[t].maxAttempts
        /\ tasks[t].status = "PENDING" => tasks[t].attempts = 0

\* a task was retried and dead-lettered on its last allowed attempt
C30_Witness ==
    \E t \in TaskIds :
        /\ tasks[t].status = "DEAD_LETTER"
        /\ tasks[t].maxAttempts >= 2
        /\ tasks[t].attempts = tasks[t].maxAttempts

\* the changes of status the engine makes
StatusChangesAllowed ==
    {<<"PENDING", "PROCESSING">>, <<"FAILED", "PROCESSING">>,
     <<"PROCESSING", "COMPLETED">>, <<"PROCESSING", "FAILED">>,
     <<"PROCESSING", "DEAD_LETTER">>}

\* C31: the status of a task changes only along pending -> processing,
\* failed -> processing, processing -> completed, processing -> failed and
\* processing -> dead-letter; a task in the pending sequence is pending or
\* failed and a task in the dead-letter collection is dead-lettered
C31_StatusTransitions ==
    /\ [](\A t \in TaskIds :
            /\ InSeq(queue, t) => tasks[t].status \in {"PENDING", "FAILED"}
            /\ InSeq(deadLetterQueue, t) => tasks[t].status = "DEAD_LETTER")
    /\ [][\A t \in TaskIds :
            tasks'[t].status # tasks[t].status =>
                <<tasks[t].status, tasks'[t].status>> \in StatusChangesAllowed]_vars

\* a failed task has been taken from the pending sequence again while a
\* dead-lettered task sits in the dead-letter collection
C31_Witness ==
    \E t, u \in TaskIds :
        /\ tasks[t].status = "PROCESSING"
        /\ tasks[t].attempts >= 1
        /\ InSeq(deadLetterQueue, u)

\* how often x occurs in the sequence s
Occurrences(s, x) == Cardinality({i \in 1..Len(s) : s[i] = x})

\* the number of places of the engine that hold task t
Places(t) ==
    Occurrences(queue, t) + Occurrences(deadLetterQueue, t)
    + Cardinality({h \in handlers : h.task = t})
    + Cardinality({r \in retryTimers : r.task = t})

\* C32: a task is in at most one of the pending sequence, in flight, waiting
\* for its backoff timer, and the dead-letter collection, and in none of
\* them twice
C32_NoDuplicates == \A t \in TaskIds : Places(t) <= 1

\* three tasks are held at once: one waits in the pending sequence, one is
\* in flight and one waits for its backoff timer
C32_Witness ==
    \E t, u, w \in TaskIds :
        /\ Occurrences(queue, t) = 1
        /\ \E h \in handlers : h.task = u
        /\ \E r \in retryTimers : r.task = w
        /\ Places(t) = 1 /\ Places(u) = 1 /\ Places(w) = 1

\* C33: of two tasks enqueued one after the other, the later one starts its
\* first execution only after the earlier one has started its own
C33_FreshFifo ==
    [][\A a, b \in TaskIds :
          (/\ a < b
           /\ tasks[b].status = "PENDING"
           /\ tasks'[b].status # "PENDING") =>
              tasks[a].status # "PENDING"]_vars

\* the retry of the first task was taken between the first executions of
\* the second and the third
C33_Witness ==
    /\ Len(tasks) = 3
    /\ tasks[1].attempts = 1
    /\ tasks[1].status = "PROCESSING"
    /\ tasks[2].status = "COMPLETED"
    /\ tasks[3].status = "PENDING"
    /\ InSeq(queue, 3)

====
